---- MODULE Spec2Model ----
(***************************************************************************)
(* Model of the infrastructure-classifier front end                        *)
(* (src/frontend/script.js): file acceptance, the preview / classify /     *)
(* remove handlers, the retrying classifyImage call and the notification   *)
(* slot.  One action per event handler or promise continuation; a handler  *)
(* runs to its next await, which is where the browser may interleave       *)
(* other events.                                                           *)
(***************************************************************************)
EXTENDS Integers, Sequences, FiniteSets, TLC

----------------------------------------------------------------------------
(* Bounds of the model *)

\* classifyImage invocations started from the classify button over one run
MaxCalls == 2
\* FileReader reads that may be pending at the same time
MaxReads == 2
\* notification elements whose auto-dismiss timer may be pending at once
MaxNotes == 2
\* user actions (file selections, drops, remove and classify clicks) in a run
MaxOps == 4

----------------------------------------------------------------------------
(* CONFIG *)

MAX_FILE_SIZE == 5 * 1024 * 1024
LOADING_TIMEOUT == 60000
NOTIFICATION_DURATION == 3000
ACCEPTED_FILE_TYPES == {"image/jpeg", "image/png", "image/webp"}

\* Messages are sequences of fragments, so that String.includes is a test
\* the model really performs.
FILE_TOO_LARGE == <<"File too large. Maximum size is 5MB">>
INVALID_FILE_TYPE == <<"Invalid file type. Allowed types: PNG, JPG, JPEG, WebP">>
FILE_READ_ERROR == <<"Error reading file">>
NO_IMAGE == <<"Please select an image first">>
REQUEST_TIMED_OUT == <<"Request ", "timed out">>
SLOW_SERVER == <<"The server is taking longer than expected to respond. Please try again in a few minutes.">>
NoMessage == << >>

Includes(msg, fragment) == \E i \in DOMAIN msg : msg[i] = fragment

\* `Server error (${response.status}). Please try again.`
ServerErrorMessage(status) ==
    <<"Server error (", ToString(status), "). Please try again.">>

\* `Cold start detected. Retrying... (${retryCount} attempts remaining)`
ColdStartMessage(retryCount) ==
    <<"Cold start detected. Retrying... (", ToString(retryCount), " attempts remaining)">>

----------------------------------------------------------------------------
(* Files *)

NoFile == [present |-> FALSE, size |-> 0, type |-> ""]
File(size, type) == [present |-> TRUE, size |-> size, type |-> type]

\* The files the user may pick or drop in the interaction model: two
\* acceptable ones, one of them exactly at the size limit, and one that
\* isValidFile refuses.
Files ==
    { File(MAX_FILE_SIZE, "image/png"),
      File(1024, "image/jpeg"),
      File(MAX_FILE_SIZE + 1, "image/gif") }

\* The candidates the validator is exercised on.
CandidateSizes ==
    {0, 1, 1024, MAX_FILE_SIZE - 1, MAX_FILE_SIZE, MAX_FILE_SIZE + 1, 2 * MAX_FILE_SIZE}
CandidateTypes ==
    {"image/jpeg", "image/png", "image/webp", "image/gif", "image/bmp",
     "image/svg+xml", "application/pdf", ""}
CandidateFiles ==
    {NoFile} \cup {File(s, t) : s \in CandidateSizes, t \in CandidateTypes}

\* isValidFile with the size limit exclusive
isValidFileExclusive(file) ==
    IF ~file.present THEN [ok |-> FALSE, note |-> NoMessage]
    ELSE IF file.size >= MAX_FILE_SIZE THEN [ok |-> FALSE, note |-> FILE_TOO_LARGE]
    ELSE IF file.type \notin ACCEPTED_FILE_TYPES
         THEN [ok |-> FALSE, note |-> INVALID_FILE_TYPE]
    ELSE [ok |-> TRUE, note |-> NoMessage]

\* isValidFile with the media type tested on the "image/" prefix only
isValidFileAnyImage(file) ==
    IF ~file.present THEN [ok |-> FALSE, note |-> NoMessage]
    ELSE IF file.size > MAX_FILE_SIZE THEN [ok |-> FALSE, note |-> FILE_TOO_LARGE]
    ELSE IF file.type \notin ACCEPTED_FILE_TYPES \cup {"image/gif", "image/bmp", "image/svg+xml"}
         THEN [ok |-> FALSE, note |-> INVALID_FILE_TYPE]
    ELSE [ok |-> TRUE, note |-> NoMessage]

\* isValidFile: the boolean it returns and the notification it shows
\* (NoMessage: none).
isValidFile(file) ==
    IF ~file.present THEN [ok |-> FALSE, note |-> NoMessage]
    ELSE IF file.size > MAX_FILE_SIZE THEN [ok |-> FALSE, note |-> FILE_TOO_LARGE]
    ELSE IF file.type \notin ACCEPTED_FILE_TYPES
         THEN [ok |-> FALSE, note |-> INVALID_FILE_TYPE]
    ELSE [ok |-> TRUE, note |-> NoMessage]

ValidFiles == {f \in Files : isValidFile(f).ok}

----------------------------------------------------------------------------
(* State *)

VARIABLES
    inputFile,        \* elements.imageUpload.files[0]
    previewSrc,       \* the file whose data URL is elements.imagePreview.src
    previewHidden,    \* elements.previewSection.hidden
    dropZoneHidden,   \* elements.dropZone.hidden
    classifyDisabled, \* elements.classifyBtn.disabled
    loadingHidden,    \* elements.loadingContainer.hidden
    resultHidden,     \* elements.resultSection.hidden
    resultOf,         \* elements.resultSection.innerHTML: NoFile when empty,
                      \* else the file whose classification is rendered
    displayed,        \* the .notification elements in the document
    noteTimers,       \* notification elements whose removal timer is pending
    readers,          \* pending FileReader reads, per file
    calls,            \* the classifyImage invocations, by index
    ops,              \* user actions performed so far
    candidate,        \* validator harness: the file handed to isValidFile
    elements,         \* the keys of `elements` whose element was found
    listeners,        \* the event listeners registered so far
    loaded,           \* whether the DOMContentLoaded callback has run
    verdict,          \* validator harness: what isValidFile answered
    payload,          \* renderer harness: the data handed to displayResults
    rendered          \* renderer harness: what displayResults put in the page

ui == <<previewSrc, previewHidden, dropZoneHidden, classifyDisabled,
        loadingHidden, resultHidden, resultOf>>
notes == <<displayed, noteTimers>>
harness == <<ops, candidate, verdict, payload, rendered>>
setup == <<elements, listeners, loaded>>
vars == <<inputFile, ui, notes, readers, calls, setup, harness>>

NoNotification == [id |-> 0, type |-> "none", msg |-> NoMessage, duration |-> 0]

\* the notification the user sees, NoNotification when there is none
notification ==
    IF displayed = {} THEN NoNotification ELSE CHOOSE n \in displayed : TRUE
NoVerdict == [done |-> FALSE, ok |-> FALSE, note |-> NoMessage]

\* a user action, counted against the bound
UserAction(others) ==
    /\ ops < MaxOps
    /\ ops' = ops + 1
    /\ UNCHANGED others
    /\ UNCHANGED setup


FreeNoteIds == (1 .. MaxNotes) \ noteTimers

\* showNotification: every .notification element is removed, the new one is
\* appended and a timer is set that removes this very element.  Element
\* identities are reused: when all MaxNotes of them have a timer pending,
\* the timer of an element that is no longer in the document is taken to
\* have fired already (its callback removes a detached element).
\* duration: the delay of the timer set to remove this element
NewNotification(message, type, id) ==
    [id |-> id, type |-> type, msg |-> message, duration |-> NOTIFICATION_DURATION]

NextNoteId ==
    IF FreeNoteIds # {}
    THEN CHOOSE i \in FreeNoteIds : \A j \in FreeNoteIds : i <= j
    ELSE CHOOSE i \in noteTimers \ {notification.id} :
             \A j \in noteTimers \ {notification.id} : i <= j

\* showNotification appending the new element without removing the others
showNotificationAppends(message, type) ==
    /\ displayed' = displayed \cup {NewNotification(message, type, NextNoteId)}
    /\ noteTimers' = noteTimers \cup {NextNoteId}

showNotification(message, type) ==
    LET selected == displayed    \* document.querySelectorAll('.notification')
    IN /\ displayed' = (displayed \ selected)
                           \cup {NewNotification(message, type, NextNoteId)}
       /\ noteTimers' = noteTimers \cup {NextNoteId}

\* the timer callback removing whichever notification is in the document
RemovedByAny(id, shown) == {}

\* the callback of setTimeout(() => notification.remove(), ...): the element
\* leaves the document if it is still in it
RemovedBy(id, shown) == {n \in shown : n.id # id}

NotificationTimer(id) ==
    /\ id \in noteTimers
    /\ noteTimers' = noteTimers \ {id}
    /\ displayed' = RemovedBy(id, displayed)
    /\ UNCHANGED <<inputFile, ui, readers, calls, setup, harness>>

----------------------------------------------------------------------------
(* File selection *)

PendingReads == LET Sum[S \in SUBSET ValidFiles] ==
                        IF S = {} THEN 0
                        ELSE LET f == CHOOSE x \in S : TRUE
                             IN readers[f] + Sum[S \ {f}]
                IN Sum[ValidFiles]

\* handleFile up to reader.readAsDataURL(file)
handleFile(file) ==
    LET v == isValidFile(file) IN
    IF ~v.ok
    THEN /\ IF v.note = NoMessage THEN UNCHANGED notes
            ELSE showNotification(v.note, "error")
         /\ UNCHANGED readers
    ELSE /\ PendingReads < MaxReads
         /\ readers' = [readers EXCEPT ![file] = @ + 1]
         /\ UNCHANGED notes

\* the 'change' listener taking the preview down when the file is refused
PickFileResets(file) ==
    /\ "change" \in listeners
    /\ file # inputFile
    /\ inputFile' = file
    /\ handleFile(file)
    /\ UserAction(<<candidate, verdict, payload, rendered>>)
    /\ IF isValidFile(file).ok THEN UNCHANGED ui
       ELSE /\ previewHidden' = TRUE
            /\ dropZoneHidden' = FALSE
            /\ classifyDisabled' = TRUE
            /\ UNCHANGED <<previewSrc, loadingHidden, resultHidden, resultOf>>
    /\ UNCHANGED calls

\* 'change' on the file input: the browser has put the chosen file in
\* imageUpload.files before the listener runs; it fires no 'change' when
\* the selection is the one the input already holds.
PickFile(file) ==
    /\ "change" \in listeners
    /\ file # inputFile
    /\ inputFile' = file
    /\ handleFile(file)
    /\ UserAction(<<candidate, verdict, payload, rendered>>)
    /\ UNCHANGED <<ui, calls>>

\* 'drop' on the drop zone; dataTransfer.files[0] is undefined when what is
\* dropped is not a file.  The file input is not touched.
Drop(file) ==
    /\ "drop" \in listeners
    /\ ~dropZoneHidden
    /\ handleFile(file)
    /\ UserAction(<<candidate, verdict, payload, rendered>>)
    /\ UNCHANGED <<inputFile, ui, calls>>

\* reader.onload
ReaderLoad(file) ==
    /\ readers[file] > 0
    /\ readers' = [readers EXCEPT ![file] = @ - 1]
    /\ previewSrc' = file
    /\ previewHidden' = FALSE
    /\ dropZoneHidden' = TRUE
    /\ classifyDisabled' = FALSE
    /\ resultHidden' = TRUE
    /\ resultOf' = NoFile
    /\ UNCHANGED <<inputFile, loadingHidden, notes, calls, setup, harness>>

\* reader.onerror
ReaderError(file) ==
    /\ readers[file] > 0
    /\ readers' = [readers EXCEPT ![file] = @ - 1]
    /\ showNotification(FILE_READ_ERROR, "error")
    /\ UNCHANGED <<inputFile, ui, calls, setup, harness>>

\* the remove handler toggling the preview section instead of hiding it
RemoveClickToggles ==
    /\ "remove" \in listeners
    /\ inputFile' = NoFile
    /\ previewHidden' = ~previewHidden
    /\ dropZoneHidden' = FALSE
    /\ classifyDisabled' = TRUE
    /\ resultHidden' = TRUE
    /\ resultOf' = NoFile
    /\ UserAction(<<candidate, verdict, payload, rendered>>)
    /\ UNCHANGED <<previewSrc, loadingHidden, notes, readers, calls>>

\* click on removeImageBtn
RemoveClick ==
    /\ "remove" \in listeners
    /\ inputFile' = NoFile
    /\ previewHidden' = TRUE
    /\ dropZoneHidden' = FALSE
    /\ classifyDisabled' = TRUE
    /\ resultHidden' = TRUE
    /\ resultOf' = NoFile
    /\ UserAction(<<candidate, verdict, payload, rendered>>)
    /\ UNCHANGED <<previewSrc, loadingHidden, notes, readers, calls>>

----------------------------------------------------------------------------
(* What the backend and the network may answer *)

Statuses == {200, 500}
ResponseOk(status) == status >= 200 /\ status <= 299

\* data.error of a non-2xx body: NoMessage when the body is not JSON or has
\* no (or an empty) error field.
ErrorTexts ==
    { NoMessage,
      <<"Model not loaded">>,
      <<"Upstream request ", "timed out">> }

\* the message of the TypeError fetch() rejects with
TransportErrors ==
    { <<"Failed to fetch">>,
      <<"The request ", "timed out", ".">> }

\* the message of the error response.json() rejects with on a 2xx body
ParseErrors ==
    { <<"Unexpected token '<', \"<!DOCTYPE \"... is not valid JSON">>,
      <<"Unexpected token 'G', \"Gateway ", "timed out", "\" is not valid JSON">> }

\* what response.json() resolves to on a 2xx body: a complete result, JSON
\* null, or an object without the individual_probs array
Payloads == {"result", "null", "noProbs"}

MAP_OF_UNDEFINED == <<"Cannot read properties of undefined (reading 'map')">>

----------------------------------------------------------------------------
(* classifyImage *)

\* classifyImage(file, retryCount = 2)
DefaultRetryCount == 2

\* new Promise(resolve => setTimeout(resolve, 2000))
RETRY_DELAY == 2000

Calls == 1 .. MaxCalls

\* pc: where the invocation is suspended; timeouts: the currentTimeout of
\* each attempt issued so far; last: how the latest finished attempt ended;
\* timedOut: whether every finished attempt lost the race to its timer;
\* status: response.status while the body is being read; delay: the delay
\* of the backoff timer that is pending, 0 when none is; fetches: the
\* fetch() promises of the call that have not settled yet
IdleCall ==
    [pc |-> "idle", file |-> NoFile, retryCount |-> 0, timeouts |-> << >>,
     last |-> "none", timedOut |-> TRUE, status |-> 0, delay |-> 0,
     fetches |-> 0]

\* The fetch of an attempt that ends because the fetch rejected has settled;
\* the fetch of an attempt that ends on its timer has not: nothing aborts it.
Ended(call, outcome) ==
    [call EXCEPT !.last = outcome,
                 !.timedOut = @ /\ outcome = "timer",
                 !.status = 0,
                 !.fetches = IF outcome = "transport" THEN @ - 1 ELSE @]

InFlight(c) == calls[c].pc \notin {"idle", "done", "failed"}

\* the timeout computed once, from the default budget, for every attempt
currentTimeoutFixed(retryCount) == LOADING_TIMEOUT * (DefaultRetryCount + 1)

\* const currentTimeout = baseTimeout * (retryCount + 1)
currentTimeout(retryCount) == LOADING_TIMEOUT * (retryCount + 1)

\* classifyImage(file, retryCount) up to `await Promise.race(...)`: the
\* attempt's timer is set and its fetch is issued.
classifyImage(call, file, retryCount) ==
    [call EXCEPT !.pc = "race",
                 !.file = file,
                 !.retryCount = retryCount,
                 !.timeouts = Append(@, currentTimeout(retryCount)),
                 !.status = 0,
                 !.delay = 0,
                 !.fetches = @ + 1]

\* updateUIForClassification leaving the classify button disabled
updateUIKeepsDisabled(isLoading) ==
    /\ loadingHidden' = ~isLoading
    /\ resultHidden' = isLoading
    /\ classifyDisabled' = TRUE

\* updateUIForClassification(isLoading)
updateUIForClassification(isLoading) ==
    /\ loadingHidden' = ~isLoading
    /\ resultHidden' = isLoading
    /\ classifyDisabled' = isLoading

\* the catch of handleClassifyClick leaving resultSection.innerHTML alone
HandlerCatchKeepsResult(message) ==
    /\ showNotification(IF Includes(message, "timed out") THEN SLOW_SERVER
                        ELSE message, "error")
    /\ updateUIForClassification(FALSE)
    /\ UNCHANGED <<previewSrc, previewHidden, dropZoneHidden, resultOf>>

\* catch and finally of handleClassifyClick
HandlerCatch(message) ==
    /\ showNotification(IF Includes(message, "timed out") THEN SLOW_SERVER
                        ELSE message, "error")
    /\ resultOf' = NoFile
    /\ updateUIForClassification(FALSE)
    /\ UNCHANGED <<previewSrc, previewHidden, dropZoneHidden>>

\* displayResults(data) throws on data.individual_probs.map when the array
\* is missing
Renders(data) == data # "noProbs"

\* handleClassifyClick going to its finally without calling displayResults
HandlerDisplayDropsResult(file, data) ==
    /\ updateUIForClassification(FALSE)
    /\ UNCHANGED <<previewSrc, previewHidden, dropZoneHidden, resultOf, notes>>

\* displayResults(data) and finally of handleClassifyClick
HandlerDisplay(file, data) ==
    IF ~Renders(data) THEN HandlerCatch(MAP_OF_UNDEFINED)
    ELSE /\ resultOf' = IF data = "null" THEN resultOf ELSE file
         /\ updateUIForClassification(FALSE)
         /\ UNCHANGED <<previewSrc, previewHidden, dropZoneHidden, notes>>

\* if (error.message.includes('timed out') && retryCount > 0)
Retried(message, retryCount) == Includes(message, "timed out") /\ retryCount > 0

\* the catch of attemptFetch calling classifyImage again at once
AttemptCatchRetriesAtOnce(c, message, outcome) ==
    IF Retried(message, calls[c].retryCount)
    THEN /\ showNotification(ColdStartMessage(calls[c].retryCount), "warning")
         /\ calls' = [calls EXCEPT
                         ![c] = classifyImage(Ended(@, outcome), @.file, @.retryCount - 1)]
         /\ UNCHANGED ui
    ELSE /\ calls' = [calls EXCEPT ![c] = [Ended(@, outcome) EXCEPT !.pc = "failed"]]
         /\ HandlerCatch(message)

\* catch of attemptFetch: the current attempt of call c ended with an error
AttemptCatch(c, message, outcome) ==
    IF Retried(message, calls[c].retryCount)
    THEN /\ showNotification(ColdStartMessage(calls[c].retryCount), "warning")
         /\ calls' = [calls EXCEPT ![c] = [Ended(@, outcome) EXCEPT
                                              !.pc = "backoff",
                                              !.delay = RETRY_DELAY]]
         /\ UNCHANGED ui
    ELSE /\ calls' = [calls EXCEPT ![c] = [Ended(@, outcome) EXCEPT !.pc = "failed"]]
         /\ HandlerCatch(message)

\* click on classifyBtn: handleClassifyClick up to `await classifyImage(file)`
ClassifyClick ==
    /\ "classify" \in listeners
    /\ ~classifyDisabled
    /\ IF ~inputFile.present
       THEN /\ HandlerCatch(NO_IMAGE)
            /\ UNCHANGED calls
       ELSE /\ \E c \in Calls : calls[c].pc = "idle"
            /\ LET c == CHOOSE i \in Calls :
                            /\ calls[i].pc = "idle"
                            /\ \A j \in Calls : calls[j].pc = "idle" => i <= j
               IN calls' = [calls EXCEPT
                               ![c] = classifyImage(@, inputFile, DefaultRetryCount)]
            /\ updateUIForClassification(TRUE)
            /\ UNCHANGED <<previewSrc, previewHidden, dropZoneHidden, resultOf, notes>>
    /\ UserAction(<<candidate, verdict, payload, rendered>>)
    /\ UNCHANGED <<inputFile, readers>>

\* the attempt's timer fires while the race is undecided:
\* reject(new Error('Request timed out')).  Once the fetch has settled the
\* race, the timer's rejection is of a promise nobody awaits.
TimeoutTimer(c) ==
    /\ calls[c].pc = "race"
    /\ AttemptCatch(c, REQUEST_TIMED_OUT, "timer")
    /\ UNCHANGED <<inputFile, readers, setup, harness>>

\* the attempt's fetch resolves with a response (its headers) before the timer
FetchResolve(c, status) ==
    /\ calls[c].pc = "race"
    /\ calls' = [calls EXCEPT
                    ![c].pc = IF ResponseOk(status) THEN "okBody" ELSE "errBody",
                    ![c].status = status,
                    ![c].fetches = @ - 1]
    /\ UNCHANGED <<inputFile, ui, notes, readers, setup, harness>>

\* the fetches of call c whose attempt has already ended on its timer
Abandoned(c) == calls[c].fetches - (IF calls[c].pc = "race" THEN 1 ELSE 0)

\* a late response handed to the handler as if it had won the race
LateResolveHandled(c, status) ==
    /\ Abandoned(c) > 0
    /\ calls' = [calls EXCEPT ![c].fetches = @ - 1]
    /\ HandlerDisplay(calls[c].file, "result")
    /\ UNCHANGED <<inputFile, readers, setup, harness>>

\* the fetch of an attempt that has timed out resolves: Promise.race has
\* settled already, and nothing else holds the promise
LateResolve(c, status) ==
    /\ Abandoned(c) > 0
    /\ calls' = [calls EXCEPT ![c].fetches = @ - 1]
    /\ UNCHANGED <<inputFile, ui, notes, readers, setup, harness>>

\* the fetch of an attempt that has timed out rejects
LateReject(c, message) ==
    /\ Abandoned(c) > 0
    /\ calls' = [calls EXCEPT ![c].fetches = @ - 1]
    /\ UNCHANGED <<inputFile, ui, notes, readers, setup, harness>>

\* the attempt's fetch rejects before the timer
FetchReject(c, message) ==
    /\ calls[c].pc = "race"
    /\ AttemptCatch(c, message, "transport")
    /\ UNCHANGED <<inputFile, readers, setup, harness>>

\* await response.json().catch(() => ({})) of a non-2xx response, and the throw
ErrorBody(c, text) ==
    /\ calls[c].pc = "errBody"
    /\ AttemptCatch(c,
                    IF text # NoMessage THEN text
                    ELSE ServerErrorMessage(calls[c].status),
                    "http")
    /\ UNCHANGED <<inputFile, readers, setup, harness>>

\* await response.json() of a 2xx response rejects
BodyRejects(c, message) ==
    /\ calls[c].pc = "okBody"
    /\ AttemptCatch(c, message, "parse")
    /\ UNCHANGED <<inputFile, readers, setup, harness>>

\* await response.json() of a 2xx response resolves: classifyImage returns
\* and handleClassifyClick goes on to displayResults and its finally
BodyResolves(c, data) ==
    /\ calls[c].pc = "okBody"
    /\ calls' = [calls EXCEPT
                    ![c] = IF Renders(data)
                           THEN [Ended(@, "ok") EXCEPT !.pc = "done"]
                           ELSE [Ended(@, "render") EXCEPT !.pc = "failed"]]
    /\ HandlerDisplay(calls[c].file, data)
    /\ UNCHANGED <<inputFile, readers, setup, harness>>

\* the 2000 ms backoff timer: .then(() => classifyImage(file, retryCount - 1))
Backoff(c) ==
    /\ calls[c].pc = "backoff"
    /\ calls' = [calls EXCEPT
                    ![c] = classifyImage(@, @.file, @.retryCount - 1)]
    /\ UNCHANGED <<inputFile, ui, notes, readers, setup, harness>>

----------------------------------------------------------------------------
(* displayResults *)

\* Numbers of the response are fixed-point, in units of 1/10000: ONE is 1.
ONE == 10000

CLASS_DESCRIPTIONS ==
    <<"Bad Infrastructure (Type A)",
      "Bad Infrastructure (Type B)",
      "Good Infrastructure (Type A)",
      "Good Infrastructure (Type B)">>

\* CLASS_DESCRIPTIONS[idx] || fallback: indexing the array outside 0..3
\* gives undefined
DescriptionOr(idx, fallback) ==
    IF idx \in 0 .. Len(CLASS_DESCRIPTIONS) - 1 THEN CLASS_DESCRIPTIONS[idx + 1]
    ELSE fallback

Max(a, b) == IF a >= b THEN a ELSE b
Min(a, b) == IF a <= b THEN a ELSE b

\* x.toFixed(1): the decimal with one fractional digit nearest to x, the
\* larger in magnitude on a tie, with the sign of x
toFixed1(x) ==
    LET m == IF x < 0 THEN -x ELSE x
        n == (10 * m + ONE \div 2) \div ONE
    IN (IF x < 0 THEN "-" ELSE "") \o ToString(n \div 10) \o "." \o ToString(n % 10)

\* (value * 100).toFixed(1)
Percentage(value) == toFixed1(value * 100)

\* createProgressBar(label, value, type): the width of the fill and the text
createProgressBar(label, value, type) ==
    LET sanitizedValue == Max(0, Min(ONE, value))
        percentage == Percentage(sanitizedValue)
    IN [label |-> label, type |-> type, width |-> percentage \o "%",
        text |-> percentage \o "%"]

NoBar == [label |-> "", type |-> "", width |-> "", text |-> ""]

\* displayResults(data) for a data object that has every field
displayResults(data) ==
    [done |-> TRUE,
     headline |-> Percentage(data.quality_confidence) \o "%",
     quality |-> IF data.is_good = 1 THEN "Good" ELSE "Poor",
     overall |-> Percentage(data.quality_confidence) \o "%",
     goodBar |-> createProgressBar("Good Infrastructure",
                                   data.good_infrastructure_prob, "good"),
     badBar |-> createProgressBar("Poor Infrastructure",
                                  data.bad_infrastructure_prob, "bad"),
     class |-> DescriptionOr(data.specific_class, "Unknown"),
     classConfidence |-> Percentage(data.class_confidence) \o "%",
     bars |-> [i \in DOMAIN data.individual_probs |->
                  createProgressBar(
                      DescriptionOr(i - 1, "Class " \o ToString(i - 1)),
                      data.individual_probs[i],
                      IF i - 1 < 2 THEN "bad" ELSE "good")]]

NoPayload ==
    [is_good |-> 0, quality_confidence |-> 0, good_infrastructure_prob |-> 0,
     bad_infrastructure_prob |-> 0, specific_class |-> 0, class_confidence |-> 0,
     individual_probs |-> << >>]

NoRender ==
    [done |-> FALSE, headline |-> "", quality |-> "", overall |-> "",
     goodBar |-> NoBar, badBar |-> NoBar, class |-> "", classConfidence |-> "",
     bars |-> << >>]

\* What the backend may send in a field that is nominally in [0,1]:
\* -0.05, 0, 0.9204, 0.9206, 1 and 1.4
Numbers == {-500, 0, 9204, 9206, ONE, 14000}

ClassIndexes == {-1, 0, 1, 2, 3, 9}

ProbabilityLists ==
    { <<400, 800, 8800, 0>>,
      <<-500, 14000, 9206, ONE>>,
      <<2500, 2500, 2500, 2500, 9204>> }

Payloads200 ==
    [is_good : {0, 1},
     quality_confidence : Numbers,
     good_infrastructure_prob : Numbers,
     bad_infrastructure_prob : {1200, 14000},
     specific_class : ClassIndexes,
     class_confidence : Numbers,
     individual_probs : ProbabilityLists]

----------------------------------------------------------------------------
(* Initialization *)

INIT_FAILED == <<"Failed to initialize application">>

\* the keys of the `elements` cache
ElementKeys ==
    {"dropZone", "imageUpload", "imagePreview", "previewSection",
     "classifyBtn", "loadingContainer", "resultSection", "removeImageBtn"}

\* validateElements returns (TRUE) or throws (FALSE)
validateElements == \A key \in ElementKeys : key \in elements

\* setupEventListeners: the drag-and-drop listeners of the drop zone, and
\* 'change' on the file input, 'click' on the remove and classify buttons
setupEventListeners ==
    {"dragenter", "dragover", "dragleave", "drop", "change", "remove", "classify"}

\* the page after a successful initialization
Ready ==
    /\ elements = ElementKeys
    /\ listeners = setupEventListeners
    /\ loaded = TRUE

\* the required-element check that logs to the console and returns
InitializeLogsOnly ==
    /\ ~loaded
    /\ loaded' = TRUE
    /\ IF validateElements
       THEN listeners' = setupEventListeners
       ELSE UNCHANGED listeners
    /\ UNCHANGED <<inputFile, ui, notes, readers, calls, elements, harness>>

\* try { validateElements(); setupEventListeners(); } catch (error) { ... }
\* at the end of the DOMContentLoaded callback
Initialize ==
    /\ ~loaded
    /\ loaded' = TRUE
    /\ IF validateElements
       THEN /\ listeners' = setupEventListeners
            /\ UNCHANGED notes
       ELSE /\ UNCHANGED listeners
            /\ showNotification(INIT_FAILED, "error")
    /\ UNCHANGED <<inputFile, ui, readers, calls, elements, harness>>

----------------------------------------------------------------------------
(* The interactive application *)

\* the page as loaded: nothing chosen, drop zone shown, classify disabled
Start ==
    /\ inputFile = NoFile
    /\ previewSrc = NoFile
    /\ previewHidden = TRUE
    /\ dropZoneHidden = FALSE
    /\ classifyDisabled = TRUE
    /\ loadingHidden = TRUE
    /\ resultHidden = TRUE
    /\ resultOf = NoFile
    /\ displayed = {}
    /\ noteTimers = {}
    /\ readers = [f \in ValidFiles |-> 0]
    /\ calls = [c \in Calls |-> IdleCall]
    /\ ops = 0

Init ==
    /\ Start
    /\ Ready
    /\ candidate = NoFile
    /\ verdict = NoVerdict
    /\ payload = NoPayload
    /\ rendered = NoRender

Next ==
    \/ \E f \in Files : PickFile(f)
    \/ \E f \in Files \cup {NoFile} : Drop(f)
    \/ \E f \in ValidFiles : ReaderLoad(f)
    \/ \E f \in ValidFiles : ReaderError(f)
    \/ RemoveClick
    \/ ClassifyClick
    \/ \E id \in 1 .. MaxNotes : NotificationTimer(id)
    \/ \E c \in Calls : TimeoutTimer(c)
    \/ \E c \in Calls, st \in Statuses : FetchResolve(c, st)
    \/ \E c \in Calls, m \in TransportErrors : FetchReject(c, m)
    \/ \E c \in Calls, t \in ErrorTexts : ErrorBody(c, t)
    \/ \E c \in Calls, m \in ParseErrors : BodyRejects(c, m)
    \/ \E c \in Calls, d \in Payloads : BodyResolves(c, d)
    \/ \E c \in Calls : Backoff(c)

Spec == Init /\ [][Next]_vars

\* Timers that are set do fire; nothing obliges the network to answer.
TimerFairness ==
    /\ \A c \in Calls : WF_vars(TimeoutTimer(c))
    /\ \A c \in Calls : WF_vars(Backoff(c))
    /\ \A id \in 1 .. MaxNotes : WF_vars(NotificationTimer(id))

FairSpec == Spec /\ TimerFairness

\* The application in front of a backend that never answers before the
\* attempt's timer: no fetch ever settles.
ColdNext ==
    \/ \E f \in Files : PickFile(f)
    \/ \E f \in Files \cup {NoFile} : Drop(f)
    \/ \E f \in ValidFiles : ReaderLoad(f)
    \/ \E f \in ValidFiles : ReaderError(f)
    \/ RemoveClick
    \/ ClassifyClick
    \/ \E id \in 1 .. MaxNotes : NotificationTimer(id)
    \/ \E c \in Calls : TimeoutTimer(c)
    \/ \E c \in Calls : Backoff(c)

ColdSpec == Init /\ [][ColdNext]_vars /\ TimerFairness

\* The application in front of a backend that answers every attempt after
\* the attempt's timer, if at all.
SlowNext ==
    \/ ColdNext
    \/ \E c \in Calls, st \in Statuses : LateResolve(c, st)
    \/ \E c \in Calls, m \in TransportErrors : LateReject(c, m)

SlowSpec == Init /\ [][SlowNext]_vars

----------------------------------------------------------------------------
(* The validator on its own: isValidFile applied to each candidate *)

ValidatorInit ==
    /\ Start
    /\ Ready
    /\ candidate \in CandidateFiles
    /\ verdict = NoVerdict
    /\ payload = NoPayload
    /\ rendered = NoRender

Validate ==
    /\ ~verdict.done
    /\ verdict' = [done |-> TRUE, ok |-> isValidFile(candidate).ok,
                   note |-> isValidFile(candidate).note]
    /\ UNCHANGED <<inputFile, ui, notes, readers, calls, setup, ops, candidate, payload, rendered>>

ValidatorNext == Validate

ValidatorSpec == ValidatorInit /\ [][ValidatorNext]_vars

----------------------------------------------------------------------------
(* Startup: the page before DOMContentLoaded, with any of the required
   elements missing from the document, in front of a backend that never
   answers *)

StartupInit ==
    /\ Start
    /\ elements \in SUBSET ElementKeys
    /\ listeners = {}
    /\ loaded = FALSE
    /\ candidate = NoFile
    /\ verdict = NoVerdict
    /\ payload = NoPayload
    /\ rendered = NoRender

StartupNext == Initialize \/ ColdNext

StartupSpec == StartupInit /\ [][StartupNext]_vars

----------------------------------------------------------------------------
(* The renderer on its own: displayResults applied to each payload *)

RendererInit ==
    /\ Start
    /\ Ready
    /\ candidate = NoFile
    /\ verdict = NoVerdict
    /\ payload \in Payloads200
    /\ rendered = NoRender

Render ==
    /\ ~rendered.done
    /\ rendered' = displayResults(payload)
    /\ UNCHANGED <<inputFile, ui, notes, readers, calls, setup, ops, candidate, verdict, payload>>

RendererNext == Render

RendererSpec == RendererInit /\ [][RendererNext]_vars

----------------------------------------------------------------------------
(* Properties *)

Failed(c) == calls[c].pc = "failed"

\* The attempts of a call whose finished attempts all lost the race to their
\* timer: timeouts 180000, 120000, 60000 ms in that order, no fourth
\* attempt, no success, and failure only after the third.
C1_Attempts ==
    \A c \in Calls :
        calls[c].timedOut =>
            /\ calls[c].timeouts = SubSeq(<<180000, 120000, 60000>>, 1, Len(calls[c].timeouts))
            /\ calls[c].pc = "backoff" => Len(calls[c].timeouts) < 3
            /\ Failed(c) => Len(calls[c].timeouts) = 3 /\ calls[c].last = "timer"
            /\ calls[c].pc # "done"

C2_HttpErrorNeverRetried ==
    \A c \in Calls : calls[c].last = "http" => Failed(c)

\* C3: an attempt whose fetch rejected ends the call: whatever the error
\* message, the call has failed, with no backoff and no further attempt.
C3_TransportErrorNeverRetried ==
    \A c \in Calls : calls[c].last = "transport" => Failed(c)

\* C4: at most one classification call is in flight at any time.
C4_AtMostOneInFlight ==
    Cardinality({c \in Calls : InFlight(c)}) <= 1

\* C5: while a classification is in flight the UI is in Submitting: the
\* loading indicator is shown, the result is hidden and the classify
\* trigger is disabled.
C5_InFlightOnlyWhileSubmitting ==
    (\E c \in Calls : InFlight(c)) =>
        ~loadingHidden /\ resultHidden /\ classifyDisabled

\* C6: the step in which a classification fails, for whatever reason, puts up
\* one new error notification, hides the loading indicator, enables the
\* classify trigger again and leaves the result display empty.
C6_FailureHandled ==
    [][\A c \in Calls :
          (InFlight(c) /\ calls'[c].pc = "failed") =>
              /\ notification' = NewNotification(notification'.msg, "error", NextNoteId)
              /\ notification'.id \in noteTimers'
              /\ loadingHidden'
              /\ ~classifyDisabled'
              /\ ~resultHidden'
              /\ resultOf' = NoFile]_vars

C6_Witness ==
    \E c \in Calls :
        /\ Failed(c)
        /\ calls[c].last = "parse"
        /\ notification.type = "error"
        /\ loadingHidden
        /\ ~classifyDisabled

\* C7: a call makes at most three attempts, and a further attempt is
\* scheduled only after the previous one is known to have timed out.
C7_RetryOnlyAfterTimeout ==
    \A c \in Calls :
        /\ Len(calls[c].timeouts) <= 3
        /\ calls[c].pc = "backoff" => calls[c].last = "timer"

\* C8: a classification that has started eventually completes, with success
\* or with failure, whatever the user does meanwhile, provided timers fire.
C8_EventuallyCompletes ==
    \A c \in Calls : InFlight(c) ~> (calls[c].pc \in {"done", "failed"})

\* C9: a file larger than 5,242,880 bytes is rejected as too large whatever
\* its media type, and a file of exactly 5,242,880 bytes with an accepted
\* media type is accepted.
C9_SizeLimit ==
    (verdict.done /\ candidate.present) =>
        /\ candidate.size > 5242880 =>
               ~verdict.ok /\ verdict.note = FILE_TOO_LARGE
        /\ (candidate.size = 5242880
              /\ candidate.type \in {"image/jpeg", "image/png", "image/webp"}) =>
               verdict.ok

C9_Witness ==
    /\ verdict.done
    /\ candidate = File(5242881, "image/png")
    /\ ~verdict.ok
    /\ verdict.note = FILE_TOO_LARGE

Unsupported(file) ==
    file.present /\ file.type \notin {"image/jpeg", "image/png", "image/webp"}

\* C10 as stated: a file whose media type is not accepted is rejected as
\* an unsupported type whatever its size.
C10_UnsupportedWhateverSize ==
    (verdict.done /\ Unsupported(candidate)) =>
        ~verdict.ok /\ verdict.note = INVALID_FILE_TYPE

\* C10 amended: a file whose media type is not accepted is rejected whatever
\* its size: as an unsupported type when its size is at most 5,242,880
\* bytes, and as too large when it is larger (the size rule comes first).
C10_UnsupportedRejected ==
    (verdict.done /\ Unsupported(candidate)) =>
        /\ ~verdict.ok
        /\ candidate.size <= 5242880 => verdict.note = INVALID_FILE_TYPE
        /\ candidate.size > 5242880 => verdict.note = FILE_TOO_LARGE

C10_Witness ==
    /\ verdict.done
    /\ candidate = File(5242880, "image/gif")
    /\ verdict.note = INVALID_FILE_TYPE

\* a step in which a selection is refused: a file chosen or dropped that
\* isValidFile rejects (nothing dropped included), or a read that fails
RejectedSelection ==
    \/ \E f \in Files \cup {NoFile} :
           ~isValidFile(f).ok /\ (PickFile(f) \/ Drop(f))
    \/ \E f \in ValidFiles : ReaderError(f)

\* C11: a refused selection, in whatever state the page is, leaves the
\* preview image, the visibility of the preview and of the drop zone, the
\* classify button's enabledness, the loading indicator and the result
\* display exactly as they were.
C11_RejectedSelectionKeepsUI ==
    [][RejectedSelection => UNCHANGED ui]_vars

\* a file has been refused while another one is being previewed
C11_Witness ==
    /\ inputFile = File(MAX_FILE_SIZE + 1, "image/gif")
    /\ notification.msg = FILE_TOO_LARGE
    /\ previewSrc.present
    /\ ~previewHidden
    /\ dropZoneHidden
    /\ ~classifyDisabled

\* C12: every refused selection, whether the file is too large, of an
\* unsupported type or unreadable (no file at all, or a read that fails),
\* puts up a new error notification in the very step that refuses it.
C12_RejectionNotified ==
    [][RejectedSelection =>
          /\ notification' = NewNotification(notification'.msg, "error", NextNoteId)
          /\ notification'.msg \in {FILE_TOO_LARGE, INVALID_FILE_TYPE, FILE_READ_ERROR}
          /\ notification'.id \in noteTimers']_vars

\* The state of the upload state machine as the page shows it, read off the
\* attributes the handlers write: what reader.onload leaves is Previewing,
\* what updateUIForClassification(true) leaves is Submitting, what the end
\* of handleClassifyClick leaves is Result (content rendered) or Failed
\* (content emptied), what the remove handler leaves is Idle.  Any other
\* combination is "Other".
UIState ==
    IF /\ previewHidden /\ ~dropZoneHidden /\ classifyDisabled
       /\ loadingHidden /\ resultHidden /\ resultOf = NoFile
    THEN "Idle"
    ELSE IF previewHidden \/ ~dropZoneHidden THEN "Other"
    ELSE IF /\ ~classifyDisabled /\ loadingHidden /\ resultHidden
            /\ resultOf = NoFile
    THEN "Previewing"
    ELSE IF classifyDisabled /\ ~loadingHidden /\ resultHidden
    THEN "Submitting"
    ELSE IF ~classifyDisabled /\ loadingHidden /\ ~resultHidden
    THEN IF resultOf # NoFile THEN "Result" ELSE "Failed"
    ELSE "Other"

\* C13: a remove click in Result, Failed or Previewing leaves the page in
\* Idle with the file input cleared (preview hidden, drop zone shown,
\* classify disabled, result hidden and empty), and a remove click on a
\* page that is already so changes nothing at all.
C13_RemoveIdempotent ==
    [][RemoveClick =>
          /\ UIState \in {"Result", "Failed", "Previewing", "Idle"} =>
                 UIState' = "Idle" /\ inputFile' = NoFile
          /\ (UIState = "Idle" /\ inputFile = NoFile) =>
                 UNCHANGED <<inputFile, ui, notes, readers, calls>>]_vars

\* one file chosen and classified, the result removed, and remove clicked
\* once more: four user actions, the page as remove leaves it
C13_Witness ==
    /\ ops = 4
    /\ calls[1].pc = "done"
    /\ calls[1].last = "ok"
    /\ calls[2].pc = "idle"
    /\ previewSrc = calls[1].file
    /\ inputFile = NoFile
    /\ UIState = "Idle"
    /\ PendingReads = 0

\* C14: the document never holds more than one notification element; an
\* element enters the document only as the one showNotification has just
\* created, and it is then alone in it (whatever was displayed is removed);
\* an element that has left the document never comes back, so nothing is
\* queued behind the current one.
C14_SingleNotification ==
    /\ [](Cardinality(displayed) <= 1)
    /\ [][\A n \in displayed' \ displayed :
             /\ displayed' = {n}
             /\ n.id = NextNoteId
             /\ n.id \in noteTimers']_vars

\* a second notification has replaced the first while the first one's
\* removal timer is still pending
C14_Witness ==
    /\ noteTimers = {1, 2}
    /\ \E n \in displayed : n.id = 2 /\ n.type = "error"
    /\ \A n \in displayed : n.id # 1

\* C15: a classify click in Previewing, however the previewed file was
\* chosen, takes the page to Submitting and starts a classifyImage call
\* that submits the previewed file.
C15_ClassifySubmitsPreviewed ==
    [][(ClassifyClick /\ UIState = "Previewing") =>
          /\ UIState' = "Submitting"
          /\ \E c \in Calls :
                 /\ calls[c].pc = "idle"
                 /\ calls'[c].pc = "race"
                 /\ calls'[c].file = previewSrc]_vars

\* the transitions of the upload state machine
ListedTransitions ==
    { <<"Idle", "Previewing">>,
      <<"Previewing", "Idle">>,
      <<"Previewing", "Submitting">>,
      <<"Submitting", "Result">>,
      <<"Submitting", "Failed">>,
      <<"Result", "Idle">>,
      <<"Failed", "Idle">>,
      <<"Result", "Previewing">>,
      <<"Failed", "Previewing">> }

\* C16: the page starts in Idle, and every step either leaves the state of
\* the upload state machine as it is or takes one of the listed transitions.
C16_OnlyListedTransitions ==
    /\ UIState = "Idle"
    /\ [][UIState' = UIState \/ <<UIState, UIState'>> \in ListedTransitions]_vars

\* what createProgressBar and displayResults are to show for a value: the
\* percentage of the value clamped to [0,1]
ClampedPercent(value) == Percentage(Max(0, Min(ONE, value))) \o "%"

\* the percentages with one decimal from 0.0% to 100.0%
PercentTexts ==
    {ToString(n \div 10) \o "." \o ToString(n % 10) \o "%" : n \in 0 .. 1000}

\* C17: every percentage the renderer shows (quality confidence, class
\* confidence, good and bad probability, each individual probability) is
\* the percentage of the value clamped to [0,1], so it lies between 0.0%
\* and 100.0%, and a value of 1.4 is shown as 100.0%.
C17_PercentagesClamped ==
    rendered.done =>
        /\ rendered.headline = ClampedPercent(payload.quality_confidence)
        /\ rendered.overall = ClampedPercent(payload.quality_confidence)
        /\ rendered.classConfidence = ClampedPercent(payload.class_confidence)
        /\ rendered.goodBar.text = ClampedPercent(payload.good_infrastructure_prob)
        /\ rendered.badBar.text = ClampedPercent(payload.bad_infrastructure_prob)
        /\ \A i \in DOMAIN rendered.bars :
               rendered.bars[i].text = ClampedPercent(payload.individual_probs[i])
        /\ {rendered.headline, rendered.overall, rendered.classConfidence,
            rendered.goodBar.text, rendered.badBar.text} \subseteq PercentTexts
        /\ \A i \in DOMAIN rendered.bars : rendered.bars[i].text \in PercentTexts
        /\ ClampedPercent(14000) = "100.0%"

\* C18: specific_class 0, 1, 2, 3 is rendered as the label of that class,
\* and any other index n as "Class n".
C18_ClassLabel ==
    rendered.done =>
        rendered.class =
            IF payload.specific_class \in 0 .. 3
            THEN CLASS_DESCRIPTIONS[payload.specific_class + 1]
            ELSE "Class " \o ToString(payload.specific_class)

\* the notification of a failed initialization: the first element created
InitNotification == NewNotification(INIT_FAILED, "error", 1)

TimesOut(c) ==
    /\ calls[c].pc = "race"
    /\ calls'[c].pc \in {"backoff", "failed"}
    /\ calls'[c].last = "timer"

\* C20: the step in which an attempt times out with retries remaining shows
\* one new warning notification, sets the 2000 ms backoff timer and issues
\* no request; the only step that takes the call out of the backoff is the
\* start of the next attempt, with the retry budget decreased by one and no
\* further notification; and a further attempt is never started from
\* anywhere but the elapsed backoff.
C20_WarningBackoffRetry ==
    [][\A c \in Calls :
          /\ (TimesOut(c) /\ calls[c].retryCount > 0) =>
                 /\ displayed' = {NewNotification(ColdStartMessage(calls[c].retryCount),
                                                  "warning", NextNoteId)}
                 /\ calls'[c].pc = "backoff"
                 /\ calls'[c].delay = 2000
                 /\ calls'[c].timeouts = calls[c].timeouts
                 /\ calls'[c].retryCount = calls[c].retryCount
          /\ (calls[c].pc = "backoff" /\ calls'[c] # calls[c]) =>
                 /\ calls'[c].pc = "race"
                 /\ calls'[c].retryCount = calls[c].retryCount - 1
                 /\ calls'[c].timeouts =
                        Append(calls[c].timeouts, 60000 * calls[c].retryCount)
                 /\ calls'[c].file = calls[c].file
                 /\ UNCHANGED notes
          /\ (calls[c].timeouts # << >>
                /\ Len(calls'[c].timeouts) > Len(calls[c].timeouts)) =>
                 calls[c].pc = "backoff"]_vars

\* the first attempt has timed out, the warning is up, the backoff has
\* elapsed and the second attempt is racing
C20_Witness ==
    \E c \in Calls :
        /\ calls[c].pc = "race"
        /\ calls[c].timeouts = <<180000, 120000>>
        /\ calls[c].retryCount = 1
        /\ calls[c].last = "timer"
        /\ \E n \in displayed : n.type = "warning" /\ n.msg = ColdStartMessage(2)

\* C21: when the response of an attempt that won the race against its timer
\* carries a complete result, the call returns in that very step (first
\* attempt or retry alike): no backoff, no further attempt then or later,
\* the result section holds the rendering for the submitted file, and a page
\* that was in Submitting is in Result.
C21_SuccessReturnsAtOnce ==
    [][\A c \in Calls :
          /\ BodyResolves(c, "result") =>
                 /\ calls'[c].pc = "done"
                 /\ calls'[c].timeouts = calls[c].timeouts
                 /\ resultOf' = calls[c].file
                 /\ UNCHANGED notes
                 /\ UIState = "Submitting" => UIState' = "Result"
          /\ calls[c].pc = "done" => calls'[c] = calls[c]]_vars

\* a call has succeeded on its third attempt and its result is displayed
C21_Witness ==
    \E c \in Calls :
        /\ calls[c].pc = "done"
        /\ calls[c].last = "ok"
        /\ calls[c].timeouts = <<180000, 120000, 60000>>
        /\ UIState = "Result"
        /\ resultOf = calls[c].file

\* the step in which the body of the 2xx response of call c turns out not
\* to be a result: response.json() rejects, or resolves to something that
\* is not a complete result
MalformedBody(c) ==
    \/ \E m \in ParseErrors : BodyRejects(c, m)
    \/ \E d \in Payloads \ {"result"} : BodyResolves(c, d)

\* C22: a 2xx response whose body is not a result makes the call fail in
\* that step, without backoff or further attempt, with an error
\* notification, and a page in Submitting goes to Failed, never to Result.
C22_MalformedBodyFails ==
    [][\A c \in Calls :
          MalformedBody(c) =>
              /\ calls'[c].pc = "failed"
              /\ calls'[c].timeouts = calls[c].timeouts
              /\ notification' = NewNotification(notification'.msg, "error", NextNoteId)
              /\ UIState = "Submitting" => UIState' = "Failed"]_vars

\* C23: a notification element leaves the document only when a newer
\* notification replaces it or when its own timer, set for 3000 ms, fires;
\* a timer that fires removes nothing but its own element, so the timer of
\* a superseded notification leaves a newer one in place.
C23_VisibleUntilReplacedOrDismissed ==
    /\ [](\A n \in displayed : n.duration = 3000 /\ n.id \in noteTimers)
    /\ [][/\ \A n \in displayed \ displayed' :
                \/ \E new \in displayed' : new.id = NextNoteId /\ new # n
                \/ n.id \in noteTimers \ noteTimers'
          /\ \A id \in noteTimers \ noteTimers' :
                displayed' = {n \in displayed : n.id # id}]_vars

\* the second notification is still displayed after the timer of the first,
\* which it replaced, has fired
C23_Witness ==
    /\ noteTimers = {2}
    /\ \E n \in displayed : n.id = 2

\* the step in which a classification ends in failure: a call fails, or the
\* classify click finds no file in the input
ClassificationFails ==
    \/ \E c \in Calls : calls[c].pc # "failed" /\ calls'[c].pc = "failed"
    \/ ClassifyClick /\ ~inputFile.present

\* C24: whenever a classification ends in failure the result section is
\* empty afterwards, whatever it held before: nothing of an earlier
\* classification and no partial rendering remains, and the page that shows
\* the failure shows an empty result.
C24_FailureClearsResult ==
    [][ClassificationFails =>
          /\ resultOf' = NoFile
          /\ ~resultHidden'
          /\ loadingHidden']_vars

\* one file classified with success and classified again with failure:
\* the rendering of the first classification is gone
C24_Witness ==
    /\ ops = 3
    /\ calls[1].pc = "done"
    /\ calls[1].last = "ok"
    /\ calls[2].pc = "failed"
    /\ calls[2].file = calls[1].file
    /\ resultOf = NoFile
    /\ UIState = "Failed"

\* C25: every file a classifyImage call submits is one isValidFile accepts.
C25_SubmittedFileIsValid ==
    \A c \in Calls :
        calls[c].pc # "idle" => isValidFile(calls[c].file).ok

\* the step in which the classify click starts call c
Submits(c) == calls[c].pc = "idle" /\ calls'[c].pc = "race"

\* C26: the file a classify click submits is the file shown in the preview
\* at that moment, whatever the order in which selections were made and
\* their reads completed.
C26_SubmittedFileIsPreviewed ==
    [][\A c \in Calls : Submits(c) => calls'[c].file = previewSrc]_vars

\* C27: a result that is visible is the classification of the file the
\* input currently holds: none is shown for a file that has been removed
\* or replaced since it was submitted.
C27_VisibleResultOfCurrentFile ==
    (~resultHidden /\ resultOf # NoFile) => resultOf = inputFile

\* C28: from a remove click until the read of an accepted file completes
\* the classify button is disabled.  The preview section is hidden over
\* exactly that stretch (only the remove handler hides it, only
\* reader.onload shows it), so: while the preview section is hidden the
\* classify button is disabled.
C28_DisabledAfterRemove ==
    previewHidden => classifyDisabled

\* C29: a classify call never has more than one fetch pending: the fetch of
\* an attempt that timed out is gone by the time the next attempt issues
\* its own.
C29_OnePendingFetchPerCall ==
    \A c \in Calls : calls[c].fetches <= 1

\* a step in which a response to an attempt that has timed out arrives
LateResponse(c) ==
    \/ \E st \in Statuses : LateResolve(c, st)
    \/ \E m \in TransportErrors : LateReject(c, m)

\* C30: the arrival of a response to an attempt that has already timed out
\* changes nothing of the call (where it stands, its attempts, its retry
\* budget, how its latest attempt ended), of the page or of the
\* notifications; only the abandoned fetch is no longer pending.
C30_LateResponseIgnored ==
    [][\A c \in Calls :
          LateResponse(c) =>
              /\ calls' = [calls EXCEPT ![c].fetches = calls[c].fetches - 1]
              /\ UNCHANGED <<inputFile, ui, notes, readers>>]_vars

\* the response to the first attempt has arrived while the third attempt is
\* racing, the fetch of the second still pending
C30_Witness ==
    \E c \in Calls :
        /\ calls[c].pc = "race"
        /\ calls[c].timeouts = <<180000, 120000, 60000>>
        /\ calls[c].timedOut
        /\ calls[c].fetches = 2

====
